---- MODULE Spec2Model ----
(***************************************************************************)
(* Virtual-DOM reconciler of src/src/vdom.rs: the VNode tree, diff and     *)
(* apply_patches.                                                          *)
(*                                                                         *)
(* Nodes live behind Rc<RefCell<VNode>> handles.  The model keeps them in  *)
(* a heap addressed by handle (an index into the sequence `heap`), so that *)
(* Rc::clone is a copy of the index and two parents can alias one node.    *)
(* old is the target the caller keeps patching, new the tree it rendered   *)
(* last, prev the roots of the trees it rendered in earlier cycles.        *)
(***************************************************************************)
EXTENDS Integers, Sequences, FiniteSets, TLC

VARIABLES heap, old, new, patches, pc, prev

vars == <<heap, old, new, patches, pc, prev>>

(***************************************************************************)
(* Bounds of the explored inputs.                                          *)
(***************************************************************************)
MaxChildren == 3

MaxNested == 2

SeqsUpTo(S, n) == UNION {[1..k -> S] : k \in 0..n}

Maps(K, V) == UNION {[D -> V] : D \in SUBSET K}

EmptyMap == [k \in {} |-> ""]

(***************************************************************************)
(* Option<String>: Some(v) is <<v>>, None is << >>.                        *)
(***************************************************************************)
Some(v) == <<v>>

None == << >>

(***************************************************************************)
(* The VNode enum.  children holds handles once a node is on the heap, and *)
(* node values while a tree is still being described.  An event handler is *)
(* a Box<dyn Fn()>; only the identity of the closure matters to the        *)
(* reconciler, so a handler is its identity.  A component's state is a     *)
(* dyn Any: the concrete type and the value.                               *)
(***************************************************************************)
Element(tag, attributes, children, event_handlers) ==
    [kind |-> "Element", tag |-> tag, attributes |-> attributes,
     children |-> children, event_handlers |-> event_handlers]

Text(text) == [kind |-> "Text", text |-> text]

Fragment(children) == [kind |-> "Fragment", children |-> children]

Component(name, props, state) ==
    [kind |-> "Component", name |-> name, props |-> props, state |-> state]

AnyString(s) == [type |-> "String", val |-> s]

AnyI32(s) == [type |-> "i32", val |-> s]

IsContainer(n) == n.kind \in {"Element", "Fragment"}

(***************************************************************************)
(* The Patch enum.  Replace and Add carry a cloned handle.                 *)
(***************************************************************************)
Replace(node) == [op |-> "Replace", node |-> node]

Add(node) == [op |-> "Add", node |-> node]

Remove == [op |-> "Remove"]

UpdateAttributes(attrs) == [op |-> "UpdateAttributes", attrs |-> attrs]

UpdateEventHandlers(handlers) == [op |-> "UpdateEventHandlers", handlers |-> handlers]

UpdateState(key, state) == [op |-> "UpdateState", key |-> key, state |-> state]

(***************************************************************************)
(* The constructors new_element, new_text, new_fragment, new_component:    *)
(* each puts one node behind a fresh handle.  AllocTree builds a described *)
(* tree bottom-up, children before their parent, and the handle of the     *)
(* tree's root is the last one allocated.                                  *)
(***************************************************************************)
RECURSIVE AllocTree(_, _)
RECURSIVE AllocChildren(_, _, _)

AllocChildren(h, vs, ids) ==
    IF Len(ids) = Len(vs) THEN [heap |-> h, ids |-> ids]
    ELSE LET h2 == AllocTree(h, vs[Len(ids) + 1])
         IN AllocChildren(h2, vs, Append(ids, Len(h2)))

AllocTree(h, v) ==
    IF IsContainer(v)
    THEN LET r == AllocChildren(h, v.children, << >>)
         IN Append(r.heap, [v EXCEPT !.children = r.ids])
    ELSE Append(h, v)

(***************************************************************************)
(* diff, lines 95-109: the staged attribute changes.  Some(value) for each *)
(* key of new that old lacks or maps to another value, None for each key   *)
(* of old that new lacks.                                                  *)
(***************************************************************************)
\* a diff that stages every key of new without comparing the values
AttrsDiff_StageAll(old_attrs, new_attrs) ==
    LET del == {k \in DOMAIN old_attrs : k \notin DOMAIN new_attrs}
    IN [k \in DOMAIN new_attrs \cup del |->
            IF k \in DOMAIN new_attrs THEN Some(new_attrs[k]) ELSE None]

\* a diff that stages no None for the keys of old missing from new
AttrsDiff_NoRemovals(old_attrs, new_attrs) ==
    LET set == {k \in DOMAIN new_attrs :
                    k \notin DOMAIN old_attrs \/ old_attrs[k] # new_attrs[k]}
    IN [k \in set |-> Some(new_attrs[k])]

AttrsDiff(old_attrs, new_attrs) ==
    LET set == {k \in DOMAIN new_attrs :
                    k \notin DOMAIN old_attrs \/ old_attrs[k] # new_attrs[k]}
        del == {k \in DOMAIN old_attrs : k \notin DOMAIN new_attrs}
    IN [k \in set \cup del |-> IF k \in set THEN Some(new_attrs[k]) ELSE None]

(***************************************************************************)
(* diff, lines 114-128: the staged handler changes.  Handlers are compared *)
(* by std::ptr::eq, that is by identity.  An event of old that new lacks   *)
(* is staged with a freshly boxed no-op closure, NoopHandler.              *)
(***************************************************************************)
NoopHandler == 0

\* a diff that forgets the events of old that new lacks
HandlersDiff_NoRemovals(old_handlers, new_handlers) ==
    LET set == {e \in DOMAIN new_handlers :
                    e \notin DOMAIN old_handlers \/ old_handlers[e] # new_handlers[e]}
    IN [e \in set |-> new_handlers[e]]

HandlersDiff(old_handlers, new_handlers) ==
    LET set == {e \in DOMAIN new_handlers :
                    e \notin DOMAIN old_handlers \/ old_handlers[e] # new_handlers[e]}
        del == {e \in DOMAIN old_handlers : e \notin DOMAIN new_handlers}
    IN [e \in set \cup del |-> IF e \in set THEN new_handlers[e] ELSE NoopHandler]

(***************************************************************************)
(* diff, lines 138-146 (and 161-169): one Remove per extra trailing child  *)
(* of old, or one Add(clone of the handle) per extra trailing child of     *)
(* new, in order.                                                          *)
(***************************************************************************)
\* a truncation loop that starts one position late
TrailingPatches_OffByOne(old_children, new_children) ==
    IF Len(old_children) > Len(new_children)
    THEN [i \in 1..(Len(old_children) - Len(new_children) - 1) |-> Remove]
    ELSE IF Len(new_children) > Len(old_children)
    THEN [i \in 1..(Len(new_children) - Len(old_children)) |->
              Add(new_children[Len(old_children) + i])]
    ELSE << >>

\* a growth loop that indexes the new children from the start of the list
TrailingPatches_WrongIndex(old_children, new_children) ==
    IF Len(old_children) > Len(new_children)
    THEN [i \in 1..(Len(old_children) - Len(new_children)) |-> Remove]
    ELSE IF Len(new_children) > Len(old_children)
    THEN [i \in 1..(Len(new_children) - Len(old_children)) |-> Add(new_children[i])]
    ELSE << >>

TrailingPatches(old_children, new_children) ==
    IF Len(old_children) > Len(new_children)
    THEN [i \in 1..(Len(old_children) - Len(new_children)) |-> Remove]
    ELSE IF Len(new_children) > Len(old_children)
    THEN [i \in 1..(Len(new_children) - Len(old_children)) |->
              Add(new_children[Len(old_children) + i])]
    ELSE << >>

(***************************************************************************)
(* diff, lines 177-189: the component state is compared only when it       *)
(* downcasts to String; the patch carries the staged HashMap, boxed.       *)
(***************************************************************************)
StatePatches(old_state, new_state) ==
    LET state_diff ==
            IF new_state.type = "String"
               /\ (old_state.type # "String" \/ old_state.val # new_state.val)
            THEN [k \in {"state"} |-> AnyString(new_state.val)]
            ELSE EmptyMap
    IN IF DOMAIN state_diff # {}
       THEN <<UpdateState("state", [type |-> "HashMap", val |-> state_diff])>>
       ELSE << >>

(***************************************************************************)
(* diff, lines 150-154: two Text nodes.                                    *)
(***************************************************************************)
\* a Text case that clones the old handle into the patch
TextPatches_ReplaceOld(h, o, n) ==
    IF h[o].text # h[n].text THEN <<Replace(o)>> ELSE << >>

TextPatches(h, o, n) ==
    IF h[o].text # h[n].text THEN <<Replace(n)>> ELSE << >>

(***************************************************************************)
(* diff, lines 110-112 and 129-131: the node's own batched patches.        *)
(***************************************************************************)
\* one patch per staged key instead of one batched patch
AttrsPatches_PerKey(old_attrs, new_attrs) ==
    LET attrs_diff == AttrsDiff(old_attrs, new_attrs)
        RECURSIVE PerKey(_)
        PerKey(ks) ==
            IF ks = {} THEN << >>
            ELSE LET k == CHOOSE x \in ks : TRUE
                 IN <<UpdateAttributes([y \in {k} |-> attrs_diff[k]])>> \o PerKey(ks \ {k})
    IN PerKey(DOMAIN attrs_diff)

AttrsPatches(old_attrs, new_attrs) ==
    LET attrs_diff == AttrsDiff(old_attrs, new_attrs)
    IN IF DOMAIN attrs_diff # {} THEN <<UpdateAttributes(attrs_diff)>> ELSE << >>

HandlersPatches(old_handlers, new_handlers) ==
    LET handlers_diff == HandlersDiff(old_handlers, new_handlers)
    IN IF DOMAIN handlers_diff # {} THEN <<UpdateEventHandlers(handlers_diff)>> ELSE << >>

(***************************************************************************)
(* diff, lines 86-196.  The patch list is flat: the patches of a child are *)
(* spliced into the list of its parent.                                    *)
(***************************************************************************)
RECURSIVE Diff(_, _, _)
RECURSIVE CommonPatches(_, _, _, _)

\* lines 134-137 (and 157-160): diff of the positions both lists have, from i on
CommonPatches(h, old_children, new_children, i) ==
    LET len == IF Len(old_children) < Len(new_children)
               THEN Len(old_children) ELSE Len(new_children)
    IN IF i > len THEN << >>
       ELSE Diff(h, old_children[i], new_children[i])
            \o CommonPatches(h, old_children, new_children, i + 1)

\* the trailing patches pushed before the patches of the common positions
ChildrenPatches_TrailingFirst(h, old_children, new_children) ==
    TrailingPatches(old_children, new_children)
    \o CommonPatches(h, old_children, new_children, 1)

\* lines 133-147 (and 156-170)
ChildrenPatches(h, old_children, new_children) ==
    CommonPatches(h, old_children, new_children, 1)
    \o TrailingPatches(old_children, new_children)

\* a tag check without its else branch: Replace, then the same-tag work as well
ElementPatches_NoStop(h, o, n) ==
    (IF h[o].tag # h[n].tag THEN <<Replace(n)>> ELSE << >>)
    \o AttrsPatches(h[o].attributes, h[n].attributes)
    \o HandlersPatches(h[o].event_handlers, h[n].event_handlers)
    \o ChildrenPatches(h, h[o].children, h[n].children)

\* the handler patch pushed before the attribute patch
ElementPatches_HandlersFirst(h, o, n) ==
    IF h[o].tag # h[n].tag THEN <<Replace(n)>>
    ELSE HandlersPatches(h[o].event_handlers, h[n].event_handlers)
         \o AttrsPatches(h[o].attributes, h[n].attributes)
         \o ChildrenPatches(h, h[o].children, h[n].children)

\* lines 90-149: two Elements
ElementPatches(h, o, n) ==
    IF h[o].tag # h[n].tag THEN <<Replace(n)>>
    ELSE AttrsPatches(h[o].attributes, h[n].attributes)
         \o HandlersPatches(h[o].event_handlers, h[n].event_handlers)
         \o ChildrenPatches(h, h[o].children, h[n].children)

\* a Component arm that replaces the node when the props differ
ComponentPatches_PropsCompared(h, o, n) ==
    IF h[o].name # h[n].name \/ h[o].props # h[n].props THEN <<Replace(n)>>
    ELSE StatePatches(h[o].state, h[n].state)

\* lines 172-191: two Components
ComponentPatches(h, o, n) ==
    IF h[o].name # h[n].name THEN <<Replace(n)>>
    ELSE StatePatches(h[o].state, h[n].state)

\* a Fragment arm that forgets the trailing Remove / Add loops
FragmentPatches_NoTrailing(h, o, n) ==
    CommonPatches(h, h[o].children, h[n].children, 1)

\* lines 155-171: two Fragments; the child loops are written out a second time
FragmentPatches(h, o, n) ==
    CommonPatches(h, h[o].children, h[n].children, 1)
    \o TrailingPatches(h[o].children, h[n].children)

\* a match that reconciles the children of any two containers
Diff_ContainersAlike(h, o, n) ==
    IF h[o].kind = "Element" /\ h[n].kind = "Element" THEN ElementPatches(h, o, n)
    ELSE IF h[o].kind = "Text" /\ h[n].kind = "Text" THEN TextPatches(h, o, n)
    ELSE IF IsContainer(h[o]) /\ IsContainer(h[n])
    THEN ChildrenPatches(h, h[o].children, h[n].children)
    ELSE IF h[o].kind = "Component" /\ h[n].kind = "Component"
    THEN ComponentPatches(h, o, n)
    ELSE <<Replace(n)>>

Diff(h, o, n) ==
    IF h[o].kind = "Element" /\ h[n].kind = "Element" THEN ElementPatches(h, o, n)
    ELSE IF h[o].kind = "Text" /\ h[n].kind = "Text" THEN TextPatches(h, o, n)
    ELSE IF h[o].kind = "Fragment" /\ h[n].kind = "Fragment" THEN FragmentPatches(h, o, n)
    ELSE IF h[o].kind = "Component" /\ h[n].kind = "Component"
    THEN ComponentPatches(h, o, n)
    ELSE <<Replace(n)>>

(***************************************************************************)
(* The number of diff invocations that diff(o, n) makes, itself included:  *)
(* the recursion of lines 136 and 159, entered only by two Elements of one *)
(* tag or two Fragments, once per position both child lists have.          *)
(***************************************************************************)
RECURSIVE DiffCalls(_, _, _)
RECURSIVE CommonCalls(_, _, _, _)

CommonCalls(h, old_children, new_children, i) ==
    LET len == IF Len(old_children) < Len(new_children)
               THEN Len(old_children) ELSE Len(new_children)
    IN IF i > len THEN 0
       ELSE DiffCalls(h, old_children[i], new_children[i])
            + CommonCalls(h, old_children, new_children, i + 1)

\* a diff that calls itself twice for every common position
DiffCalls_Twice(h, o, n) ==
    IF \/ h[o].kind = "Element" /\ h[n].kind = "Element" /\ h[o].tag = h[n].tag
       \/ h[o].kind = "Fragment" /\ h[n].kind = "Fragment"
    THEN 1 + 2 * CommonCalls(h, h[o].children, h[n].children, 1)
    ELSE 1

DiffCalls(h, o, n) ==
    IF \/ h[o].kind = "Element" /\ h[n].kind = "Element" /\ h[o].tag = h[n].tag
       \/ h[o].kind = "Fragment" /\ h[n].kind = "Fragment"
    THEN 1 + CommonCalls(h, h[o].children, h[n].children, 1)
    ELSE 1

(***************************************************************************)
(* apply_patches, lines 233-262: one patch on the children list of root.   *)
(* The result is the heap and whether the call panicked (unwrap of the     *)
(* missing last child of an empty list).                                   *)
(***************************************************************************)
RemoveKeys(m, ks) == [k \in DOMAIN m \ ks |-> m[k]]

Overwrite(m, upd) == [k \in DOMAIN m \cup DOMAIN upd |-> IF k \in DOMAIN upd THEN upd[k] ELSE m[k]]

\* an attribute loop that skips the None entries instead of removing the key
ApplyAttrs_KeepsRemoved(attributes, attrs) ==
    LET ins == {k \in DOMAIN attrs : attrs[k] # None}
    IN Overwrite(attributes, [k \in ins |-> attrs[k][1]])

\* lines 240-245: insert on Some(val), remove on None
ApplyAttrs(attributes, attrs) ==
    LET ins == {k \in DOMAIN attrs : attrs[k] # None}
    IN Overwrite(RemoveKeys(attributes, DOMAIN attrs \ ins), [k \in ins |-> attrs[k][1]])

\* a Replace that substitutes the last child only
ApplyStructural_ReplaceLast(children, patch) ==
    CASE patch.op = "Replace" ->
            IF children = << >> THEN <<patch.node>>
            ELSE Append(SubSeq(children, 1, Len(children) - 1), patch.node)
      [] patch.op = "Add" -> Append(children, patch.node)
      [] patch.op = "Remove" ->
            IF children = << >> THEN << >> ELSE SubSeq(children, 1, Len(children) - 1)

\* a Remove that takes the first child instead of the last
ApplyStructural_RemoveFirst(children, patch) ==
    CASE patch.op = "Replace" -> <<patch.node>>
      [] patch.op = "Add" -> Append(children, patch.node)
      [] patch.op = "Remove" ->
            IF children = << >> THEN << >> ELSE SubSeq(children, 2, Len(children))

\* lines 235-237: Replace is vec![node], Add is push, Remove is pop
ApplyStructural(children, patch) ==
    CASE patch.op = "Replace" -> <<patch.node>>
      [] patch.op = "Add" -> Append(children, patch.node)
      [] patch.op = "Remove" ->
            IF children = << >> THEN << >> ELSE SubSeq(children, 1, Len(children) - 1)

\* an event loop that detaches the events whose staged handler is the no-op
ApplyHandlers_DropsNoop(event_handlers, handlers) ==
    LET off == {e \in DOMAIN handlers : handlers[e] = NoopHandler}
    IN Overwrite(RemoveKeys(event_handlers, off), RemoveKeys(handlers, off))

\* lines 250-252: insert every staged handler
ApplyHandlers(event_handlers, handlers) == Overwrite(event_handlers, handlers)

\* a target that is the first child of the list
LastChild_First(children) == children[1]

\* lines 239, 249, 256: root.last_mut(), the node the patch is applied to
LastChild(children) == children[Len(children)]

ApplyPatch(h, root, patch) ==
    LET children == h[root].children
        last == LastChild(children)
    IN CASE patch.op \in {"Replace", "Add", "Remove"} ->
                [heap |-> [h EXCEPT ![root].children = ApplyStructural(children, patch)],
                 panic |-> FALSE]
         [] patch.op = "UpdateAttributes" ->
                IF children = << >> THEN [heap |-> h, panic |-> TRUE]
                ELSE IF h[last].kind = "Element"
                THEN [heap |-> [h EXCEPT ![last].attributes = ApplyAttrs(@, patch.attrs)],
                      panic |-> FALSE]
                ELSE [heap |-> h, panic |-> FALSE]
         [] patch.op = "UpdateEventHandlers" ->
                IF children = << >> THEN [heap |-> h, panic |-> TRUE]
                ELSE IF h[last].kind = "Element"
                THEN [heap |-> [h EXCEPT ![last].event_handlers = ApplyHandlers(@, patch.handlers)],
                      panic |-> FALSE]
                ELSE [heap |-> h, panic |-> FALSE]
         [] patch.op = "UpdateState" ->
                IF children = << >> THEN [heap |-> h, panic |-> TRUE]
                ELSE IF h[last].kind = "Component" /\ patch.state.type = "String"
                THEN [heap |-> [h EXCEPT ![last].state = patch.state], panic |-> FALSE]
                ELSE [heap |-> h, panic |-> FALSE]

\* a loop that walks the patch list from its end
RECURSIVE ApplyFrom_Reverse(_, _, _, _)

ApplyFrom_Reverse(h, root, ps, i) ==
    IF i > Len(ps) THEN [heap |-> h, panic |-> FALSE]
    ELSE LET r == ApplyPatch(h, root, ps[Len(ps) + 1 - i])
         IN IF r.panic THEN r ELSE ApplyFrom_Reverse(r.heap, root, ps, i + 1)

\* a loop that skips a patch without a target instead of aborting
RECURSIVE ApplyFrom_IgnorePanic(_, _, _, _)

ApplyFrom_IgnorePanic(h, root, ps, i) ==
    IF i > Len(ps) THEN [heap |-> h, panic |-> FALSE]
    ELSE ApplyFrom_IgnorePanic(ApplyPatch(h, root, ps[i]).heap, root, ps, i + 1)

\* a loop that restores the children it started from when a patch aborts
RECURSIVE ApplyFrom_RollbackRun(_, _, _, _)

ApplyFrom_RollbackRun(h, root, ps, i) ==
    IF i > Len(ps) THEN [heap |-> h, panic |-> FALSE]
    ELSE LET r == ApplyPatch(h, root, ps[i])
         IN IF r.panic THEN r ELSE ApplyFrom_RollbackRun(r.heap, root, ps, i + 1)

ApplyFrom_Rollback(h, root, ps, i) ==
    LET r == ApplyFrom_RollbackRun(h, root, ps, i)
    IN IF r.panic THEN [heap |-> h, panic |-> TRUE] ELSE r

\* lines 233-263: the patches from index i on, in order, until one panics
RECURSIVE ApplyFrom(_, _, _, _)

ApplyFrom(h, root, ps, i) ==
    IF i > Len(ps) THEN [heap |-> h, panic |-> FALSE]
    ELSE LET r == ApplyPatch(h, root, ps[i])
         IN IF r.panic THEN r ELSE ApplyFrom(r.heap, root, ps, i + 1)

\* a call that aborts on a root without children list and a non-empty list
ApplyPatches_PanicsOnLeaf(h, root, ps) ==
    IF IsContainer(h[root]) THEN ApplyFrom(h, root, ps, 1)
    ELSE [heap |-> h, panic |-> ps # << >>]

\* lines 226-264: a root that is no container returns at once
ApplyPatches(h, root, ps) ==
    IF IsContainer(h[root]) THEN ApplyFrom(h, root, ps, 1)
    ELSE [heap |-> h, panic |-> FALSE]

(***************************************************************************)
(* The trees the caller renders.  Families of inputs, each paired with      *)
(* itself: wide lists of text children, Elements that differ in their own  *)
(* attributes and handlers, nested containers, roots of all four variants, *)
(* Elements that differ in attributes, handlers and children at once,      *)
(* containers of childless Elements and Components that differ in handlers *)
(* and state, and containers of one Element over all attribute maps.       *)
(***************************************************************************)
Texts == {"a", "b", "c", "d"}

Tags == {"div", "ul"}

AttrMaps == Maps({"a", "b", "c"}, {"1", "2", "3"})

HandlerMaps == Maps({"click", "input"}, {1, 2})

A1 == [k \in {"a"} |-> "1"]

A2 == [k \in {"a"} |-> "2"]

Click1 == [e \in {"click"} |-> 1]

WideTrees ==
    {Element("ul", EmptyMap, cs, EmptyMap) :
        cs \in SeqsUpTo({Text(s) : s \in Texts}, MaxChildren)}

HeadTrees ==
    {Element(t, am, << >>, EmptyMap) : t \in Tags, am \in AttrMaps}
    \cup {Element(t, am, << >>, hm) : t \in Tags, am \in {EmptyMap, A1}, hm \in HandlerMaps}

MidNodes ==
    {Text("a"),
     Element("li", A1, <<Text("a")>>, EmptyMap),
     Element("li", A2, << >>, EmptyMap),
     Fragment(<<Text("b")>>)}

NestedTrees ==
    {Element("div", am, cs, EmptyMap) :
        am \in {EmptyMap, A1}, cs \in SeqsUpTo(MidNodes, MaxNested)}
    \cup {Fragment(cs) : cs \in SeqsUpTo(MidNodes, MaxNested)}

VariantTrees ==
    {Text("a"), Text("b"),
     Element("div", A1, <<Text("a")>>, Click1),
     Element("ul", EmptyMap, << >>, EmptyMap),
     Fragment(<<Text("a"), Text("b")>>),
     Fragment(<< >>)}
    \cup {Component(nm, pr, st) :
            nm \in {"A", "B"}, pr \in {EmptyMap, A1},
            st \in {AnyString("s1"), AnyString("s2"), AnyI32("7"), AnyI32("8")}}

FullTrees ==
    {Element("div", am, cs, hm) :
        am \in {EmptyMap, A1}, hm \in {EmptyMap, Click1},
        cs \in SeqsUpTo({Text("a"), Text("b"), Element("li", A1, << >>, Click1)}, MaxNested)}

LeafNodes ==
    {Element("li", EmptyMap, << >>, Click1),
     Element("li", EmptyMap, << >>, EmptyMap),
     Component("A", EmptyMap, AnyString("s1")),
     Component("A", EmptyMap, AnyString("s2")),
     Component("A", EmptyMap, AnyI32("7"))}

LeafTrees ==
    {Element("div", EmptyMap, cs, EmptyMap) : cs \in SeqsUpTo(LeafNodes, MaxNested)}
    \cup {Fragment(cs) : cs \in SeqsUpTo(LeafNodes, MaxNested)}

AttrTrees == {Fragment(<<Element("li", am, << >>, EmptyMap)>>) : am \in AttrMaps}

Inputs ==
    (WideTrees \X WideTrees) \cup (HeadTrees \X HeadTrees)
    \cup (NestedTrees \X NestedTrees) \cup (VariantTrees \X VariantTrees)
    \cup (FullTrees \X FullTrees) \cup (LeafTrees \X LeafTrees)
    \cup (AttrTrees \X AttrTrees)

(***************************************************************************)
(* The caller: build the old and the new tree (no node shared), call       *)
(* diff(old, new), then apply_patches(old, patches).                       *)
(***************************************************************************)
Init ==
    \E in \in Inputs :
        LET h1 == AllocTree(<< >>, in[1])
            h2 == AllocTree(h1, in[2])
        IN /\ heap = h2
           /\ old = Len(h1)
           /\ new = Len(h2)
           /\ patches = << >>
           /\ pc = "ready"
           /\ prev = << >>

\* a diff that moves the extra children of new into its Add patches
DiffCall_TakesAdded ==
    /\ pc = "ready"
    /\ patches' = Diff(heap, old, new)
    /\ pc' = "diffed"
    /\ heap' = IF IsContainer(heap[old]) /\ IsContainer(heap[new])
                  /\ Len(heap[new].children) > Len(heap[old].children)
               THEN [heap EXCEPT ![new].children = SubSeq(@, 1, Len(heap[old].children))]
               ELSE heap
    /\ UNCHANGED <<old, new, prev>>

DiffCall ==
    /\ pc = "ready"
    /\ patches' = Diff(heap, old, new)
    /\ pc' = "diffed"
    /\ UNCHANGED <<heap, old, new, prev>>

ApplyPatchesCall ==
    /\ pc = "diffed"
    /\ LET r == ApplyPatches(heap, old, patches)
       IN /\ heap' = r.heap
          /\ pc' = IF r.panic THEN "panicked" ELSE "applied"
    /\ UNCHANGED <<old, new, patches, prev>>

Next == DiffCall \/ ApplyPatchesCall

Spec == Init /\ [][Next]_vars

(***************************************************************************)
(* apply_patches on its own: the caller holds a target tree and any patch  *)
(* list, whose Replace and Add patches carry handles of a second tree.     *)
(***************************************************************************)
MaxPatches == 2

AB == [k \in {"a", "b"} |-> IF k = "a" THEN "1" ELSE "2"]

ApplyKids ==
    {Text("a"),
     Element("li", AB, << >>, Click1),
     Component("A", EmptyMap, AnyString("s1"))}

ApplyTargets ==
    {Element("div", A1, cs, EmptyMap) : cs \in SeqsUpTo(ApplyKids, MaxNested)}
    \cup {Fragment(cs) : cs \in SeqsUpTo(ApplyKids, MaxNested)}
    \cup {Text("a"), Component("A", EmptyMap, AnyString("s1"))}

Donor == Fragment(<<Text("b"), Element("li", A2, << >>, EmptyMap)>>)

PatchSet(h, donor) ==
    {Replace(h[donor].children[i]) : i \in 1..Len(h[donor].children)}
    \cup {Add(h[donor].children[i]) : i \in 1..Len(h[donor].children)}
    \cup {Remove,
          UpdateAttributes([k \in {"a", "c"} |-> IF k = "a" THEN None ELSE Some("3")]),
          UpdateAttributes([k \in {"a"} |-> Some("2")]),
          UpdateEventHandlers([e \in {"click", "input"} |-> 2]),
          UpdateState("state", AnyString("s2")),
          UpdateState("state", [type |-> "HashMap",
                                val |-> [k \in {"state"} |-> AnyString("s2")]])}

InitApply ==
    \E t \in ApplyTargets :
        LET h1 == AllocTree(<< >>, t)
            h2 == AllocTree(h1, Donor)
        IN /\ heap = h2
           /\ old = Len(h1)
           /\ new = Len(h2)
           /\ patches \in SeqsUpTo(PatchSet(h2, Len(h2)), MaxPatches)
           /\ pc = "diffed"
           /\ prev = << >>

NextApply == ApplyPatchesCall

SpecApply == InitApply /\ [][NextApply]_vars

(***************************************************************************)
(* Reconciliation cycles: after apply_patches the caller renders the next  *)
(* tree with the constructors and diffs the target against it, keeping the *)
(* trees of the earlier cycles.                                            *)
(***************************************************************************)
MaxCycles == 2

CycleKids ==
    {Text("a"), Element("li", A1, << >>, EmptyMap), Element("li", A2, << >>, EmptyMap)}

CycleTrees ==
    {Element("div", EmptyMap, cs, EmptyMap) :
        cs \in {<< >>} \cup {<<k>> : k \in CycleKids}
                \cup {<<k1, k2>> : k1 \in CycleKids, k2 \in CycleKids}}

InitCycles ==
    \E in \in CycleTrees \X CycleTrees :
        LET h1 == AllocTree(<< >>, in[1])
            h2 == AllocTree(h1, in[2])
        IN /\ heap = h2
           /\ old = Len(h1)
           /\ new = Len(h2)
           /\ patches = << >>
           /\ pc = "ready"
           /\ prev = << >>

Render ==
    /\ pc = "applied"
    /\ Len(prev) + 1 < MaxCycles
    /\ \E t \in CycleTrees :
          /\ heap' = AllocTree(heap, t)
          /\ new' = Len(AllocTree(heap, t))
    /\ prev' = Append(prev, new)
    /\ patches' = << >>
    /\ pc' = "ready"
    /\ UNCHANGED old

NextCycles == DiffCall \/ ApplyPatchesCall \/ Render

SpecCycles == InitCycles /\ [][NextCycles]_vars

(***************************************************************************)
(* Reconciliation towards one fixed new tree: the caller repeats           *)
(* diff(target, new) and apply_patches(target, patches) with the same new, *)
(* also after a cycle that aborted.  Each call runs to completion and the  *)
(* caller always starts the next one, hence the weak fairness.             *)
(***************************************************************************)
ConvergeTrees ==
    {Element("div", am, cs, EmptyMap) :
        am \in {EmptyMap, A1}, cs \in SeqsUpTo(CycleKids, MaxNested)}

InitConverge ==
    \E in \in ConvergeTrees \X ConvergeTrees :
        LET h1 == AllocTree(<< >>, in[1])
            h2 == AllocTree(h1, in[2])
        IN /\ heap = h2
           /\ old = Len(h1)
           /\ new = Len(h2)
           /\ patches = << >>
           /\ pc = "ready"
           /\ prev = << >>

Again ==
    /\ pc \in {"applied", "panicked"}
    /\ pc' = "ready"
    /\ patches' = << >>
    /\ UNCHANGED <<heap, old, new, prev>>

NextConverge == DiffCall \/ ApplyPatchesCall \/ Again

SpecConverge == InitConverge /\ [][NextConverge]_vars /\ WF_vars(NextConverge)

(***************************************************************************)
(* Reading a tree back from the heap, for structural comparison: same      *)
(* variants, tags, attributes, handler identities and children at every    *)
(* position.                                                               *)
(***************************************************************************)
RECURSIVE TreeOf(_, _)

TreeOf(h, i) ==
    IF IsContainer(h[i])
    THEN LET cs == h[i].children
         IN [h[i] EXCEPT !.children = [k \in 1..Len(cs) |-> TreeOf(h, cs[k])]]
    ELSE h[i]

StructEq(h, i, j) == TreeOf(h, i) = TreeOf(h, j)

RECURSIVE HasComponent(_)

HasComponent(v) ==
    \/ v.kind = "Component"
    \/ /\ IsContainer(v)
       /\ \E k \in 1..Len(v.children) : HasComponent(v.children[k])

ScenarioOld == Element("ul", EmptyMap, <<Text("a"), Text("b")>>, EmptyMap)

ScenarioNew == Element("ul", EmptyMap, <<Text("a"), Text("c"), Text("d")>>, EmptyMap)

IsScenario == TreeOf(heap, old) = ScenarioOld /\ TreeOf(heap, new) = ScenarioNew

\* both roots are Elements with one tag, or both are Fragments
SameLevel ==
    \/ heap[old].kind = "Element" /\ heap[new].kind = "Element"
       /\ heap[old].tag = heap[new].tag
    \/ heap[old].kind = "Fragment" /\ heap[new].kind = "Fragment"

SameTagElements ==
    heap[old].kind = "Element" /\ heap[new].kind = "Element"
    /\ heap[old].tag = heap[new].tag

\* C1: applying diff(old, new) to the old tree with container roots leaves it
\* structurally equal to new (and the call does not abort).
C1_RoundTrip ==
    (pc \in {"applied", "panicked"} /\ IsContainer(heap[old]) /\ IsContainer(heap[new]))
        => (pc = "applied" /\ StructEq(heap, old, new))

\* C1 on the documented scenario alone: ul[a, b] patched towards ul[a, c, d].
\* The two Text children of old keep their handles 1 and 2 whatever the root's
\* children list becomes.
C1_ScenarioRoundTrip ==
    (pc = "applied" /\ old = 3 /\ heap[1] = Text("a") /\ heap[2] = Text("b")
        /\ heap[old].kind = "Element" /\ heap[old].tag = "ul"
        /\ TreeOf(heap, new) = ScenarioNew)
        => TreeOf(heap, old) = ScenarioNew

\* C2: for old = ul[a, b] and new = ul[a, c, d] the patch list is exactly
\* [Replace(Text c), Add(Text d)], in that order.
C2_ScenarioPatches ==
    (pc = "diffed" /\ IsScenario)
        => /\ Len(patches) = 2
           /\ patches[1] = Replace(heap[new].children[2])
           /\ heap[patches[1].node] = Text("c")
           /\ patches[2] = Add(heap[new].children[3])
           /\ heap[patches[2].node] = Text("d")

C2_Witness == pc = "diffed" /\ IsScenario /\ Len(patches) = 2

\* C3: the diff of two structurally identical trees without Component nodes
\* is the empty patch list.
C3_NoOpDiff ==
    (pc = "diffed" /\ StructEq(heap, old, new) /\ ~HasComponent(TreeOf(heap, old)))
        => patches = << >>

C3_Witness ==
    /\ pc = "diffed" /\ old # new /\ StructEq(heap, old, new)
    /\ heap[old].kind = "Element" /\ heap[old].attributes = A1
    /\ Len(heap[old].children) = 2
    /\ heap[heap[old].children[1]].kind = "Element"
    /\ patches = << >>

\* C4: when old and new are different variants the patch list is exactly
\* [Replace(new)].
C4_VariantMismatch ==
    (pc = "diffed" /\ heap[old].kind # heap[new].kind) => patches = <<Replace(new)>>

C4_Witness ==
    /\ pc = "diffed" /\ heap[old].kind = "Element" /\ heap[new].kind = "Fragment"
    /\ Len(heap[old].children) = 1 /\ Len(heap[new].children) = 2
    /\ patches = <<Replace(new)>>

\* C5: two Elements with different tags give exactly [Replace(new)], whatever
\* their attributes, handlers and children.
C5_TagMismatch ==
    (pc = "diffed" /\ heap[old].kind = "Element" /\ heap[new].kind = "Element"
        /\ heap[old].tag # heap[new].tag)
        => patches = <<Replace(new)>>

C5_Witness ==
    /\ pc = "diffed" /\ heap[old].kind = "Element" /\ heap[new].kind = "Element"
    /\ heap[old].tag # heap[new].tag
    /\ heap[old].attributes # heap[new].attributes
    /\ heap[old].event_handlers # heap[new].event_handlers
    /\ Len(heap[old].children) # Len(heap[new].children)
    /\ patches = <<Replace(new)>>

\* C10: two Text nodes give [Replace(new)] when their contents differ and the
\* empty list when they are equal.
C10_TextDiff ==
    (pc = "diffed" /\ heap[old].kind = "Text" /\ heap[new].kind = "Text")
        => patches = (IF heap[old].text = heap[new].text THEN << >> ELSE <<Replace(new)>>)

C10_Witness ==
    /\ pc = "diffed" /\ heap[old].kind = "Text" /\ heap[new].kind = "Text"
    /\ heap[old].text # heap[new].text /\ patches = <<Replace(new)>>

\* the patches of diff(old, new) that precede those of the children lists
OwnLen == Len(patches) - Len(ChildrenPatches(heap, heap[old].children, heap[new].children))

OwnOps == {"UpdateAttributes", "UpdateEventHandlers"}

\* C6: for two Elements with the same tag, diff pushes at most one
\* UpdateAttributes patch for them, exactly when the attribute maps differ, and
\* its map has Some(new value) for every key added or changed, None for every
\* key removed, and no entry for a key with the same value on both sides.
C6_AttributeBatching ==
    (pc = "diffed" /\ SameTagElements)
        => LET oa == heap[old].attributes
               na == heap[new].attributes
               ups == {i \in 1..OwnLen : patches[i].op = "UpdateAttributes"}
               touched == {k \in DOMAIN oa \cup DOMAIN na :
                              k \notin DOMAIN oa \/ k \notin DOMAIN na \/ oa[k] # na[k]}
           IN /\ Cardinality(ups) <= 1
              /\ (ups # {}) <=> (oa # na)
              /\ \A i \in ups :
                    /\ DOMAIN patches[i].attrs = touched
                    /\ \A k \in touched :
                          patches[i].attrs[k] =
                              (IF k \in DOMAIN na THEN Some(na[k]) ELSE None)

C6_Witness ==
    /\ pc = "diffed" /\ SameTagElements
    /\ heap[old].attributes = [k \in {"a", "b"} |-> IF k = "a" THEN "1" ELSE "2"]
    /\ heap[new].attributes = [k \in {"a", "c"} |-> IF k = "a" THEN "1" ELSE "3"]
    /\ patches = <<UpdateAttributes(
                      [k \in {"b", "c"} |-> IF k = "b" THEN None ELSE Some("3")])>>

\* C7: for two Elements with the same tag, diff pushes at most one
\* UpdateEventHandlers patch for them, exactly when some event has a new or
\* different handler in new or some event of old is absent from new, and its
\* map has one entry for each such event and none for the others.
C7_HandlerBatching ==
    (pc = "diffed" /\ SameTagElements)
        => LET oh == heap[old].event_handlers
               nh == heap[new].event_handlers
               ups == {i \in 1..OwnLen : patches[i].op = "UpdateEventHandlers"}
               touched == {e \in DOMAIN oh \cup DOMAIN nh :
                              e \notin DOMAIN oh \/ e \notin DOMAIN nh \/ oh[e] # nh[e]}
           IN /\ Cardinality(ups) <= 1
              /\ (ups # {}) <=> (touched # {})
              /\ \A i \in ups : DOMAIN patches[i].handlers = touched

C7_Witness ==
    /\ pc = "diffed" /\ SameTagElements
    /\ heap[old].event_handlers = [e \in {"click", "input"} |-> 1]
    /\ heap[new].event_handlers = [e \in {"click"} |-> 2]
    /\ Len(patches) = 1 /\ patches[1].op = "UpdateEventHandlers"
    /\ DOMAIN patches[1].handlers = {"click", "input"}

\* C8: when old has m children and new has n < m, at the same level, the patch
\* list is the node's own patches, then the patches of the n common positions,
\* then exactly m - n Remove patches and no Add; with both lists empty there is
\* no child patch.
C8_ChildTruncation ==
    (pc = "diffed" /\ SameLevel)
        => LET oc == heap[old].children
               nc == heap[new].children
               common == CommonPatches(heap, oc, nc, 1)
               own == Len(patches) - Len(common) - (Len(oc) - Len(nc))
           IN /\ Len(oc) > Len(nc) =>
                    /\ own \in 0..2
                    /\ \A i \in 1..own : patches[i].op \in OwnOps
                    /\ SubSeq(patches, own + 1, own + Len(common)) = common
                    /\ \A i \in (own + Len(common) + 1)..Len(patches) : patches[i] = Remove
              /\ (oc = << >> /\ nc = << >>) =>
                    \A i \in 1..Len(patches) : patches[i].op \in OwnOps

C8_Witness ==
    /\ pc = "diffed" /\ SameLevel
    /\ Len(heap[old].children) = 3 /\ Len(heap[new].children) = 1
    /\ patches = <<Remove, Remove>>

\* C9: when new has n children and old has m < n, at the same level, the patch
\* list ends with exactly n - m Add patches and no Remove, the k-th Add
\* carrying new child m + k.
C9_ChildGrowth ==
    (pc = "diffed" /\ SameLevel /\ Len(heap[new].children) > Len(heap[old].children))
        => LET oc == heap[old].children
               nc == heap[new].children
               common == CommonPatches(heap, oc, nc, 1)
               own == Len(patches) - Len(common) - (Len(nc) - Len(oc))
           IN /\ own \in 0..2
              /\ \A i \in 1..own : patches[i].op \in OwnOps
              /\ SubSeq(patches, own + 1, own + Len(common)) = common
              /\ \A k \in 1..(Len(nc) - Len(oc)) :
                    patches[own + Len(common) + k] = Add(nc[Len(oc) + k])

C9_Witness ==
    /\ pc = "diffed" /\ SameLevel
    /\ Len(heap[old].children) = 1 /\ Len(heap[new].children) = 3
    /\ patches = <<Add(heap[new].children[2]), Add(heap[new].children[3])>>

\* the heap with both roots turned into Elements of one tag, one attribute map
\* and one handler map, holding the child lists they have
AsElements(h, o, n, tag, am, hm) ==
    [h EXCEPT ![o] = Element(tag, am, h[o].children, hm),
              ![n] = Element(tag, am, h[n].children, hm)]

\* C11: the diff of two Fragments is the same patch list as the diff of two
\* Elements with equal tag, attributes and handlers that hold the same two
\* child lists.
C11_FragmentAsElement ==
    (pc = "diffed" /\ heap[old].kind = "Fragment" /\ heap[new].kind = "Fragment")
        => \A tag \in Tags, am \in {EmptyMap, A1}, hm \in {EmptyMap, Click1} :
              patches = Diff(AsElements(heap, old, new, tag, am, hm), old, new)

C11_Witness ==
    /\ pc = "diffed" /\ heap[old].kind = "Fragment" /\ heap[new].kind = "Fragment"
    /\ Len(patches) >= 3
    /\ patches[1].op = "UpdateAttributes"
    /\ patches[Len(patches)].op = "Add"

\* the payload of an UpdateState patch holds the state value st
Carries(payload, st) ==
    IF payload.type = "HashMap"
    THEN \E k \in DOMAIN payload.val : payload.val[k] = st
    ELSE payload = st

\* C12: two Components give [Replace(new)] when the names differ; with equal
\* names, one UpdateState patch carrying the new state when the state changed,
\* whatever the kind of the state value, and the empty list otherwise.
C12_ComponentDiff ==
    (pc = "diffed" /\ heap[old].kind = "Component" /\ heap[new].kind = "Component")
        => IF heap[old].name # heap[new].name THEN patches = <<Replace(new)>>
           ELSE IF heap[old].state # heap[new].state
           THEN /\ Len(patches) = 1
                /\ patches[1].op = "UpdateState"
                /\ Carries(patches[1].state, heap[new].state)
           ELSE patches = << >>

\* C12 restricted to new states that are Strings: the part the code implements.
C12_StringStateDiff ==
    (pc = "diffed" /\ heap[old].kind = "Component" /\ heap[new].kind = "Component"
        /\ heap[new].state.type = "String")
        => IF heap[old].name # heap[new].name THEN patches = <<Replace(new)>>
           ELSE IF heap[old].state # heap[new].state
           THEN /\ Len(patches) = 1
                /\ patches[1].op = "UpdateState"
                /\ Carries(patches[1].state, heap[new].state)
           ELSE patches = << >>

\* total length of the diffs of child positions 1..i
RECURSIVE SumLen(_, _, _, _)

SumLen(h, oc, nc, i) ==
    IF i = 0 THEN 0 ELSE SumLen(h, oc, nc, i - 1) + Len(Diff(h, oc[i], nc[i]))

\* the heap after the first k patches, consumed one at a time in list order
RECURSIVE AfterPrefix(_, _, _, _)

AfterPrefix(h, root, ps, k) ==
    IF k = 0 THEN [heap |-> h, panic |-> FALSE]
    ELSE LET r == AfterPrefix(h, root, ps, k - 1)
         IN IF r.panic THEN r ELSE ApplyPatch(r.heap, root, ps[k])

C13_EmissionOrder ==
    (pc = "diffed" /\ SameTagElements)
        => LET oc == heap[old].children
               nc == heap[new].children
               min == IF Len(oc) < Len(nc) THEN Len(oc) ELSE Len(nc)
               a == IF heap[old].attributes # heap[new].attributes THEN 1 ELSE 0
               hd == IF heap[old].event_handlers # heap[new].event_handlers THEN 1 ELSE 0
               off(i) == a + hd + SumLen(heap, oc, nc, i)
           IN /\ Len(patches) = off(min) + (Len(oc) - min) + (Len(nc) - min)
              /\ a = 1 => patches[1].op = "UpdateAttributes"
              /\ hd = 1 => patches[a + 1].op = "UpdateEventHandlers"
              /\ \A i \in 1..min :
                    SubSeq(patches, off(i - 1) + 1, off(i)) = Diff(heap, oc[i], nc[i])
              /\ \A j \in (off(min) + 1)..Len(patches) :
                    patches[j].op = (IF Len(oc) > Len(nc) THEN "Remove" ELSE "Add")

C13_ConsumedInOrder ==
    (pc = "diffed" /\ pc' # "diffed" /\ IsContainer(heap[old]))
        => LET r == AfterPrefix(heap, old, patches, Len(patches))
           IN heap' = r.heap /\ pc' = (IF r.panic THEN "panicked" ELSE "applied")

\* C13: the patch list of two same-tag Elements is the node's UpdateAttributes
\* patch (if any), then its UpdateEventHandlers patch (if any), then the
\* patches of child 0, of child 1, and so on, then the trailing Add or Remove
\* patches; and apply_patches consumes a list in that order, one patch at a
\* time.
C13_Order == [](C13_EmissionOrder) /\ [][C13_ConsumedInOrder]_vars

C13_Witness ==
    /\ pc = "diffed" /\ SameTagElements
    /\ Len(heap[old].children) = 1 /\ Len(heap[new].children) = 2
    /\ Len(patches) = 4
    /\ patches[1].op = "UpdateAttributes" /\ patches[2].op = "UpdateEventHandlers"
    /\ patches[3].op = "Replace" /\ patches[4].op = "Add"

\* the last patch of the list, and the heap it is applied to
LastPatch == patches[Len(patches)]

BeforeLast == AfterPrefix(heap, old, patches, Len(patches) - 1)

\* the apply_patches step reaches its last patch on a container root
ReachesLast ==
    /\ pc = "diffed" /\ pc' # "diffed"
    /\ IsContainer(heap[old]) /\ patches # << >>
    /\ ~BeforeLast.panic

C14_Step ==
    (ReachesLast /\ LastPatch.op \in {"Replace", "Add", "Remove"})
        => LET cb == BeforeLast.heap[old].children
               ca == heap'[old].children
           IN /\ pc' = "applied"
              /\ LastPatch.op = "Replace" => ca = <<LastPatch.node>>
              /\ LastPatch.op = "Add" =>
                    /\ Len(ca) = Len(cb) + 1
                    /\ ca[Len(ca)] = LastPatch.node
                    /\ \A i \in 1..Len(cb) : ca[i] = cb[i]
              /\ LastPatch.op = "Remove" =>
                    /\ Len(ca) = (IF cb = << >> THEN 0 ELSE Len(cb) - 1)
                    /\ \A i \in 1..Len(ca) : ca[i] = cb[i]
              /\ \A i \in DOMAIN heap : i # old => heap'[i] = BeforeLast.heap[i]
              /\ [heap'[old] EXCEPT !.children = cb] = BeforeLast.heap[old]

\* C14: on a container root, Replace(n) leaves the children list equal to [n],
\* Add(n) leaves the previous list with n appended, Remove leaves the previous
\* list without its last entry; the other entries keep their position.
C14_StructuralPatches == [][C14_Step]_vars

C14_Witness ==
    /\ pc = "applied" /\ Len(patches) = 2
    /\ patches[1].op = "Add" /\ patches[2].op = "Replace"
    /\ old = 3
    /\ heap[old].children = <<patches[2].node>>

C15_Step ==
    (ReachesLast /\ LastPatch.op = "UpdateAttributes"
        /\ BeforeLast.heap[old].children # << >>
        /\ LET cb == BeforeLast.heap[old].children
           IN BeforeLast.heap[cb[Len(cb)]].kind = "Element")
        => LET cb == BeforeLast.heap[old].children
               lc == cb[Len(cb)]
               m == LastPatch.attrs
               was == BeforeLast.heap[lc].attributes
               now == heap'[lc].attributes
           IN /\ pc' = "applied"
              /\ \A k \in DOMAIN m :
                    IF m[k] = None THEN k \notin DOMAIN now
                    ELSE k \in DOMAIN now /\ now[k] = m[k][1]
              /\ \A k \in (DOMAIN was \cup DOMAIN now) \ DOMAIN m :
                    k \in DOMAIN was /\ k \in DOMAIN now /\ now[k] = was[k]
              /\ \A i \in DOMAIN heap : i # lc => heap'[i] = BeforeLast.heap[i]
              /\ [heap'[lc] EXCEPT !.attributes = was] = BeforeLast.heap[lc]

\* C15: when the last child of the container is an Element, UpdateAttributes(m)
\* changes only that node's attribute map: every key with Some(v) in m maps to
\* v, every key with None in m is absent, every other key is as before; no
\* other node and no position of the children list changes.
C15_UpdateAttributes == [][C15_Step]_vars

C15_Witness ==
    /\ pc = "applied" /\ Len(patches) = 1
    /\ patches[1] = UpdateAttributes([k \in {"a", "c"} |-> IF k = "a" THEN None ELSE Some("3")])
    /\ Len(heap[old].children) = 2
    /\ heap[heap[old].children[2]].kind = "Element"
    /\ heap[heap[old].children[2]].attributes =
           [k \in {"b", "c"} |-> IF k = "b" THEN "2" ELSE "3"]

\* the variant a non-structural patch expects of the last child
TargetKind(patch) == IF patch.op = "UpdateState" THEN "Component" ELSE "Element"

\* C16: UpdateAttributes or UpdateEventHandlers on a last child that is no
\* Element, or UpdateState on a last child that is no Component, ends the call
\* with a failure; it is never skipped with the call completing.  (A list of
\* non-structural patches leaves the children list and every variant as they
\* were, so the last child seen after the call is the one each patch met.)
C16_FailFast ==
    (pc = "applied" /\ IsContainer(heap[old]) /\ heap[old].children # << >>
        /\ \A i \in 1..Len(patches) : patches[i].op \notin {"Replace", "Add", "Remove"})
        => \A i \in 1..Len(patches) :
              heap[heap[old].children[Len(heap[old].children)]].kind = TargetKind(patches[i])

C17_Step ==
    (pc = "ready" /\ pc' = "diffed")
        => /\ heap' = heap /\ old' = old /\ new' = new
           /\ Diff(heap', old', new') = patches'

RECURSIVE SharedPositions(_, _, _)
RECURSIVE SharedBelow(_, _, _, _)

SharedBelow(h, oc, nc, i) ==
    IF i > Len(oc) \/ i > Len(nc) THEN 0
    ELSE SharedPositions(h, oc[i], nc[i]) + SharedBelow(h, oc, nc, i + 1)

SharedPositions(h, o, n) ==
    IF IsContainer(h[o]) /\ IsContainer(h[n])
    THEN 1 + SharedBelow(h, h[o].children, h[n].children, 1)
    ELSE 1

\* C18: diff returns a patch list for every pair of trees, and makes at most
\* one call of itself per position that exists in both trees.
C18_DiffTotal ==
    /\ pc = "ready" => ENABLED DiffCall
    /\ pc = "diffed" => DiffCalls(heap, old, new) <= SharedPositions(heap, old, new)

C18_Witness ==
    /\ pc = "diffed"
    /\ DiffCalls(heap, old, new) = 3
    /\ SharedPositions(heap, old, new) = 4

\* the handles reachable from root
RECURSIVE Reach(_, _)

Reach(h, root) ==
    IF IsContainer(h[root])
    THEN {root} \cup UNION {Reach(h, h[root].children[i]) : i \in 1..Len(h[root].children)}
    ELSE {root}

\* the places (parent, index) that hold handle x
Owners(h, x) ==
    UNION {{<<p, i>> : i \in {j \in 1..Len(h[p].children) : h[p].children[j] = x}} :
              p \in {q \in DOMAIN h : IsContainer(h[q])}}

\* C19: after diff(old, new) and apply_patches(old, patches) on trees that
\* shared no node, every node reachable from the target root has exactly one
\* parent and no node is reachable from both the target and the new tree.
C19_StrictOwnership ==
    pc = "applied"
        => /\ \A x \in Reach(heap, old) \ {old} : Cardinality(Owners(heap, x)) = 1
           /\ Reach(heap, old) \cap Reach(heap, new) = {}

C20_Step ==
    (pc = "diffed" /\ pc' # "diffed")
        => \A j \in 1..Len(prev) : TreeOf(heap', prev[j]) = TreeOf(heap, prev[j])

\* C20: an apply_patches call on the target leaves every tree that was passed
\* to diff in an earlier cycle structurally unchanged.
C20_EarlierTreesUnchanged == [][C20_Step]_vars

\* the last children of the two roots
LastOld == LastChild(heap[old].children)

LastNew == LastChild(heap[new].children)

\* both roots are containers with a last child
BothHaveLast ==
    /\ IsContainer(heap[old]) /\ IsContainer(heap[new])
    /\ heap[old].children # << >> /\ heap[new].children # << >>

C21_Step ==
    (/\ pc = "diffed" /\ pc' # "diffed"
     /\ BothHaveLast
     /\ heap[LastOld].kind = "Component" /\ heap[LastNew].kind = "Component"
     /\ heap[LastOld].name = heap[LastNew].name
     /\ heap[LastOld].state # heap[LastNew].state
     /\ Len(patches) = 1 /\ patches[1].op = "UpdateState"
     /\ patches = Diff(heap, LastOld, LastNew))
        => heap'[LastOld].state = heap[LastNew].state

\* C21: applying the UpdateState patch that diff emits for two Components of
\* one name and different state to a container whose last child is the old
\* Component leaves that component's state equal to the new component's.
C21_UpdateStateRoundTrip == [][C21_Step]_vars

\* C22: two Components with the same name and equal state have the empty
\* patch list, whatever their props maps are.
C22_PropsIgnored ==
    (/\ pc = "diffed"
     /\ heap[old].kind = "Component" /\ heap[new].kind = "Component"
     /\ heap[old].name = heap[new].name
     /\ heap[old].state = heap[new].state)
        => patches = << >>

C22_Witness ==
    /\ pc = "diffed"
    /\ heap[old].kind = "Component" /\ heap[new].kind = "Component"
    /\ heap[old].name = heap[new].name
    /\ heap[old].state = heap[new].state
    /\ heap[old].props # heap[new].props
    /\ patches = << >>

\* the events that have a handler on node o and none on node n
RemovedEvents(o, n) == DOMAIN heap[o].event_handlers \ DOMAIN heap[n].event_handlers

\* the last children are childless Elements of one tag at the same position
LastElementsAlike ==
    /\ BothHaveLast /\ SameLevel
    /\ Len(heap[old].children) = Len(heap[new].children)
    /\ heap[LastOld].kind = "Element" /\ heap[LastNew].kind = "Element"
    /\ heap[LastOld].tag = heap[LastNew].tag
    /\ heap[LastOld].children = << >> /\ heap[LastNew].children = << >>

C23_NoopStaged ==
    /\ (pc = "diffed" /\ SameTagElements)
          => \A e \in RemovedEvents(old, new) :
                \E j \in 1..OwnLen :
                    /\ patches[j].op = "UpdateEventHandlers"
                    /\ e \in DOMAIN patches[j].handlers
                    /\ patches[j].handlers[e] = NoopHandler
    /\ (pc = "diffed" /\ LastElementsAlike /\ RemovedEvents(LastOld, LastNew) # {})
          => /\ patches # << >>
             /\ LastPatch.op = "UpdateEventHandlers"
             /\ \A e \in RemovedEvents(LastOld, LastNew) :
                    e \in DOMAIN LastPatch.handlers /\ LastPatch.handlers[e] = NoopHandler

C23_Step ==
    (pc = "diffed" /\ pc' # "diffed")
        => /\ \A x \in DOMAIN heap :
                heap[x].kind = "Element"
                    => /\ heap'[x].kind = "Element"
                       /\ DOMAIN heap[x].event_handlers \subseteq DOMAIN heap'[x].event_handlers
           /\ (LastElementsAlike /\ patches = Diff(heap, LastOld, LastNew))
                => \A e \in RemovedEvents(LastOld, LastNew) :
                      /\ e \in DOMAIN heap'[LastOld].event_handlers
                      /\ heap'[LastOld].event_handlers[e] = NoopHandler

\* C23: when event e has a handler in old and none in new, the
\* UpdateEventHandlers patch of diff carries a no-op handler for e, after
\* applying it the target Element still has an entry for e, and no
\* apply_patches call takes an event name away from an Element.
C23_HandlerStaysAttached == [](C23_NoopStaged) /\ [][C23_Step]_vars

C23_Witness ==
    /\ pc = "applied" /\ BothHaveLast
    /\ LastOld # LastNew
    /\ heap[LastOld].kind = "Element" /\ heap[LastNew].kind = "Element"
    /\ "click" \in DOMAIN heap[LastOld].event_handlers
    /\ "click" \notin DOMAIN heap[LastNew].event_handlers
    /\ heap[LastOld].event_handlers["click"] = NoopHandler
    /\ Len(patches) = 1 /\ patches[1].op = "UpdateEventHandlers"

\* the roots stage no patch of their own: Fragments, or Elements with the same
\* attributes and handlers
RootsAlike ==
    /\ SameLevel
    /\ heap[old].kind = "Element"
          => /\ heap[old].attributes = heap[new].attributes
             /\ heap[old].event_handlers = heap[new].event_handlers

\* both roots hold one childless Element of one tag with the same handlers
OneElementEach ==
    /\ LastElementsAlike /\ RootsAlike
    /\ Len(heap[old].children) = 1
    /\ heap[LastOld].event_handlers = heap[LastNew].event_handlers

C24_Step ==
    (pc = "diffed" /\ pc' # "diffed" /\ OneElementEach)
        => /\ pc' = "applied"
           /\ heap'[LastOld].attributes = heap[LastNew].attributes
           /\ heap[LastOld].attributes = heap[LastNew].attributes
                => patches = << >> /\ heap' = heap
           /\ heap[LastOld].attributes # heap[LastNew].attributes
                => /\ Len(patches) = 1
                   /\ patches[1].op = "UpdateAttributes"
                   /\ heap' = [heap EXCEPT ![LastOld].attributes =
                                   ApplyAttrs(@, patches[1].attrs)]

\* C24: starting from the attribute map of old and applying the
\* UpdateAttributes map diff stages for old and new (insert on Some, delete on
\* None) gives the attribute map of new; for equal maps nothing is staged and
\* nothing is applied.
C24_AttributeRoundTrip == [][C24_Step]_vars

C24_Witness ==
    /\ pc = "applied" /\ OneElementEach
    /\ LastOld # LastNew
    /\ Len(patches) = 1 /\ patches[1].op = "UpdateAttributes"
    /\ \E k \in DOMAIN patches[1].attrs : patches[1].attrs[k] = None
    /\ \E k \in DOMAIN patches[1].attrs : patches[1].attrs[k] # None
    /\ heap[LastOld].attributes = heap[LastNew].attributes

\* the shorter children list is a prefix of the longer one, entry by entry
\* structurally identical
PrefixChildren ==
    LET oc == heap[old].children
        nc == heap[new].children
    IN \A i \in 1..Len(oc) : i <= Len(nc) => StructEq(heap, oc[i], nc[i])

C25_Step ==
    (/\ pc = "diffed" /\ pc' # "diffed"
     /\ IsContainer(heap[old]) /\ RootsAlike /\ PrefixChildren)
        => LET oc == heap[old].children
               nc == heap[new].children
               ac == heap'[old].children
           IN /\ pc' = "applied"
              /\ \A j \in 1..Len(patches) : patches[j].op \in {"Add", "Remove"}
              /\ Len(ac) = Len(nc)
              /\ \A i \in 1..Len(ac) : TreeOf(heap', ac[i]) = TreeOf(heap, nc[i])
              /\ \A i \in 1..Len(oc) :
                    i <= Len(nc) => ac[i] = oc[i] /\ heap'[oc[i]] = heap[oc[i]]

\* C25: for containers of one variant (Elements: one tag, the same attributes
\* and handlers) whose shorter children list is a structurally identical
\* prefix of the longer one, applying diff(old, new) to old leaves its
\* children list structurally equal to new's, the common prefix untouched.
C25_PrefixRoundTrip == [][C25_Step]_vars

C25_Shrinks ==
    /\ pc = "applied" /\ IsContainer(heap[old]) /\ RootsAlike
    /\ Len(patches) = 2 /\ patches[1].op = "Remove" /\ patches[2].op = "Remove"
    /\ Len(heap[old].children) = 1 /\ Len(heap[new].children) = 1
    /\ StructEq(heap, old, new)

C25_Grows ==
    /\ pc = "applied" /\ IsContainer(heap[old]) /\ RootsAlike
    /\ Len(patches) = 2 /\ patches[1].op = "Add" /\ patches[2].op = "Add"
    /\ Len(heap[old].children) = 3
    /\ heap[old].children[1] # heap[new].children[1]
    /\ StructEq(heap, old, new)

C25_Witness == C25_Shrinks \/ C25_Grows

Structural == {"Replace", "Add", "Remove"}

\* node x is the last child of root when patch k, a non-structural one, is
\* processed
TargetOfPatch(x, k) ==
    LET b == AfterPrefix(heap, old, patches, k - 1)
        cs == b.heap[old].children
    IN /\ patches[k].op \notin Structural
       /\ ~b.panic
       /\ cs # << >>
       /\ cs[Len(cs)] = x

C26_Step ==
    (pc = "diffed" /\ pc' # "diffed" /\ IsContainer(heap[old]))
        => /\ DOMAIN heap' = DOMAIN heap
           /\ heap'[old] = [heap[old] EXCEPT !.children = heap'[old].children]
           /\ \A x \in DOMAIN heap \ {old} :
                 heap'[x] # heap[x] => \E k \in 1..Len(patches) : TargetOfPatch(x, k)

\* C26: apply_patches on a container root leaves the root's variant, tag,
\* attributes and handlers as they were; it changes only the root's children
\* list and the fields of the node that is last in that list when a
\* non-structural patch is processed, never another child.
C26_RootUnchanged == [][C26_Step]_vars

C26_Witness ==
    /\ pc = "applied"
    /\ heap[old].kind = "Element"
    /\ heap[old] = Element("div", A1, heap[old].children, EmptyMap)
    /\ Len(heap[old].children) = 2
    /\ heap[heap[old].children[1]] = Element("li", AB, << >>, Click1)
    /\ heap[heap[old].children[2]].kind = "Element"
    /\ heap[heap[old].children[2]].tag = "li"
    /\ heap[heap[old].children[2]].attributes = [k \in {"b", "c"} |-> IF k = "b" THEN "2" ELSE "3"]
    /\ heap[old].children[1] # heap[old].children[2]

C27_Step ==
    (pc = "diffed" /\ pc' # "diffed" /\ ~IsContainer(heap[old]))
        => heap' = heap /\ pc' = "applied"

\* C27: apply_patches on a Text or Component root returns at once for every
\* patch list: the root is unchanged and nothing is reported.
C27_LeafRootReturns == [][C27_Step]_vars

C27_Witness ==
    /\ pc = "applied"
    /\ heap[old].kind = "Component"
    /\ Len(patches) >= 2
    /\ patches[1].op = "Replace" /\ patches[2].op = "UpdateState"

\* patches 1..k-1 are all Remove
RemovesBefore(k) == \A j \in 1..(k - 1) : patches[j].op = "Remove"

C28_Step ==
    (pc = "diffed" /\ pc' # "diffed" /\ IsContainer(heap[old]))
        => /\ (heap[old].children = << >> /\ RemovesBefore(Len(patches) + 1))
                => pc' = "applied" /\ heap' = heap
           /\ \A k \in 1..Len(patches) :
                 (/\ patches[k].op \notin Structural
                  /\ RemovesBefore(k)
                  /\ k - 1 >= Len(heap[old].children))
                    => pc' = "panicked" /\ heap'[old].children = << >>

\* C28: on a children list that is empty when a patch is processed, Remove
\* leaves the list empty and reports nothing, while UpdateAttributes,
\* UpdateEventHandlers and UpdateState abort the call.
C28_EmptyChildren == [][C28_Step]_vars

C28_Witness ==
    /\ pc = "panicked"
    /\ old = 1 /\ IsContainer(heap[old])
    /\ heap[old].children = << >>
    /\ Len(patches) >= 2
    /\ patches[1].op = "Remove" /\ patches[2].op = "UpdateEventHandlers"

C29_Step ==
    (pc = "diffed" /\ pc' = "panicked")
        => \E k \in 1..Len(patches) :
              LET b == AfterPrefix(heap, old, patches, k - 1)
              IN /\ ~b.panic
                 /\ patches[k].op \notin Structural
                 /\ b.heap[old].children = << >>
                 /\ heap' = b.heap

\* C29: when apply_patches aborts at the patch of index k, the target is left
\* as the patches before k made it; nothing is rolled back.
C29_NotAtomic == [][C29_Step]_vars

C29_Witness ==
    /\ pc = "panicked"
    /\ old = 2 /\ IsContainer(heap[old])
    /\ heap[old].children = << >>
    /\ Len(patches) >= 2
    /\ patches[1].op = "Remove" /\ patches[2].op = "UpdateAttributes"

\* diff(target, new) is the empty list
Converged == Diff(heap, old, new) = << >>

\* C30: for a fixed new tree and container roots, repeating diff(target, new)
\* and apply_patches(target, patches) eventually reaches a state where
\* diff(target, new) is empty, and stays there.
C30_Convergence == <>[](Converged)

\* the cycles that do converge: once diff(target, new) is empty, further
\* cycles leave the heap as it is
C30_StableOnceConverged ==
    [][(Converged /\ pc' # "ready") => (heap' = heap /\ pc' # "panicked")]_vars

\* the same convergence asked only of the runs in which no cycle aborts
C30_Livelock == <>(pc = "panicked") \/ <>[](Converged)

====
